---- MODULE Spec2Model ----
(***************************************************************************)
(* Model of the second_brain ingestion pipeline (backend/app/tasks/        *)
(* worker.py) and of its chunker (backend/app/ingest/chunking.py).         *)
(*                                                                         *)
(* Spec      : the ingestion passes (Celery tasks) over the two tables     *)
(*             knowledge_items and chunks.                                 *)
(* ChunkSpec : chunk_text and _simple_chunks run on bounded input texts.   *)
(*                                                                         *)
(* Database transactions are modelled at commit granularity: statements    *)
(* executed but not committed are invisible to other sessions and are      *)
(* discarded by the db.rollback() that opens _set_status, and two sessions *)
(* inserting the same (item_id, chunk_index) serialise on the unique       *)
(* index, so every committed transaction is one atomic step.               *)
(***************************************************************************)
EXTENDS Integers, Sequences, FiniteSets, TLC

(***************************************************************************)
(* Bounds of the model                                                     *)
(***************************************************************************)
MaxSmall == 1   \* small chunk counts 0..MaxSmall are tried beside the caps
MaxPages == 2   \* pages of a PDF
MaxLen   == 5   \* characters of a chunker input text
MaxChars == 4   \* largest max_chars argument tried for the chunker
MaxIter  == 7   \* sliding-window iterations followed per packed chunk
MaxChunks == 4  \* chunks of the first item in the table a retrieval reads
MaxTopK  == 4   \* largest top_k argument tried for hybrid_retrieve
MaxVal   == 4   \* largest score of a list given to _norm
MaxNormLen == 3 \* longest list given to _norm

(***************************************************************************)
(* Program constants                                                       *)
(***************************************************************************)
TranscriptCap == 60000  \* worker.py:233 (ingest_audio, max_chars)
WebCap   == 50  \* worker.py:195  (ingest_web)
AudioCap == 50  \* worker.py:266  (ingest_audio)
DocCap   == 80  \* worker.py:311 and 361 (ingest_document)

Items  == {"i1", "i2"}
Passes == {1, 2}
Kinds  == {"WEB", "AUDIO", "PDF", "MARKDOWN", "IMAGE"}
Contents == {"A", "B"}      \* versions of the extracted content
NULL == "NULL"

Terminal == {"READY", "FAILED"}

VARIABLES
  items,     \* knowledge_items: item id -> row (or NoItem)
  chunks,    \* chunks table: a set of rows
  pass,      \* the executions of the ingestion tasks
  apiKey,    \* settings.OPENAI_API_KEY: "set", "unset" (or "unread" so far)
  ck,        \* state of one chunker call (ChunkSpec)
  rq,        \* state of one hybrid_retrieve call (RetrieveSpec)
  nv         \* one call of _norm: its argument and its result (NormSpec)

vars == <<items, chunks, pass, apiKey, ck, rq, nv>>

\* doc is the chunker's view of what was submitted with the item, for the kinds
\* whose task reads it from the task arguments or from the stored upload: the
\* number of chunks of the text (MARKDOWN, IMAGE) or of each page (PDF).
\* file is what os.path.getsize finds at the file_path of an AUDIO or DOCUMENT
\* task: a file within 25 MB ("ok"), a larger one, or none.
NoItem == [kind |-> NULL, status |-> "ABSENT", error_message |-> NULL, metadata |-> {},
           doc |-> <<>>, file |-> "ok"]

\* A task execution before it starts.  pc is the position in the task body,
\* soft tells that the soft-time-limit exception was already delivered,
\* exc is the str() of the exception the outer handler caught, src names
\* the text (or the chunk list) the pass works on, n the length of the
\* chunk list, pg the PDF page reached, chunk_idx the PDF chunk counter and
\* emitted the number of chunk texts the chunker has handed to the pass.
\* tr is the transcript of an AUDIO pass until it is chunked: the offset and
\* the length of the part of the trimmed provider text the pass holds, and the
\* length of that whole text.  embed is what the embedding gateway did in the
\* pass (NULL: it was not called); for an IMAGE pass chunk_idx is the number of
\* rows the insert loop went through.  tx is what the session of the pass
\* holds uncommitted: the rows of the INSERT statements it has executed since
\* its last commit (db is a sessionmaker(autocommit=False) session).
IdlePass == [pc |-> "idle", item |-> NULL, soft |-> FALSE,
             exc |-> NULL, src |-> NULL, meta |-> {}, n |-> 0,
             pg |-> 0, chunk_idx |-> 0, emitted |-> 0, tr |-> <<>>,
             embed |-> NULL, tx |-> {}]

\* One call of chunk_text or _simple_chunks: its arguments, its locals (the
\* packed chunks, the index k of the packed chunk being enforced, the window
\* start i, the list final) and its result.  iters counts the window
\* iterations on the current packed chunk, windows those of the whole call,
\* ovl[n] the non-whitespace characters final[n] shares with final[n-1].
IdleChunker == [pc |-> "off", fn |-> NULL, text |-> <<>>, max_chars |-> 0, overlap |-> 0,
                chunks |-> <<>>, k |-> 0, i |-> 0, iters |-> 0, windows |-> 0,
                final |-> <<>>, ovl |-> <<>>, result |-> <<>>, rovl |-> <<>>]

\* One call of hybrid_retrieve: the chunks table it reads (store), its
\* arguments item_id, top_k and window (whether time_start and time_end are
\* both given), and its locals: q_vec ("vec", or NULL when the
\* query could not be embedded), vec_rows, kw_rows, fallback (whether the
\* fallback query ran), scored and evidence.
IdleNorm == [pc |-> "off", vals |-> <<>>, out |-> <<>>]

IdleRetrieve == [pc |-> "off", store |-> {}, item_id |-> NULL, top_k |-> 0,
                 window |-> FALSE,
                 q_vec |-> NULL, vec_rows |-> <<>>, kw_rows |-> <<>>,
                 fallback |-> FALSE, scored |-> <<>>, evidence |-> <<>>]

ItemOf(p) == pass[p].item
KindOf(p) == items[pass[p].item].kind
At(p, where) == pass[p].pc = where

Running(p) == pass[p].pc \notin {"idle", "returned", "raised", "killed"}

\* settings.OPENAI_API_KEY is fixed when the process starts; the model fixes
\* it at the first read.
ReadKey == IF apiKey = "unread" THEN {"set", "unset"} ELSE {apiKey}

\* Celery options of the task: ingest_image_metadata has no time limits.
HasTimeLimits(k) == k \in {"WEB", "AUDIO", "PDF", "MARKDOWN"}

Min(a, b) == IF a < b THEN a ELSE b

(***************************************************************************)
(* Storage helpers                                                         *)
(***************************************************************************)

\* SetStatus without the WHERE clause: every row is updated
SetStatusAll(its, id, s, e) ==
  [i \in DOMAIN its |-> IF its[i].status = "ABSENT" THEN its[i]
                        ELSE [its[i] EXCEPT !.status = s, !.error_message = e]]

\* SetStatus that leaves a message in place when none is given
SetStatusKeepError(its, id, s, e) ==
  [its EXCEPT ![id].status = s, ![id].error_message = IF e = "NULL" THEN @ ELSE e]

\* _set_status: UPDATE knowledge_items SET status=:s, error_message=:e
\* WHERE id=:id
SetStatus(its, id, s, e) == [its EXCEPT ![id].status = s, ![id].error_message = e]

\* UPDATE ... SET metadata = :patch
MergeMetadataReplace(its, id, patch) == [its EXCEPT ![id].metadata = patch]

\* _merge_metadata: metadata || patch (later write wins per key)
MergeMetadata(its, id, patch) ==
  [its EXCEPT ![id].metadata =
      {kv \in @ : ~ \E q \in patch : q[1] = kv[1]} \cup patch]

\* hashlib.sha256(txt).hexdigest(): a function of the text alone
Sha256(txt) == <<"sha256", txt>>

\* The text of the chunk at position ord (0-based) of the chunker output for
\* content src; page is the PDF page it comes from (0 otherwise).
ChunkTextOf(src, page, ord) == <<src, page, ord>>

\* One row of the INSERT INTO chunks statement.
Row(p, id, idx, txt, emb, ptype, ps, pe) ==
  [id |-> <<p, idx>>, item_id |-> id, chunk_index |-> idx, text |-> txt,
   embedding |-> emb, chunk_hash |-> Sha256(txt),
   pointer_type |-> ptype, pointer_start |-> ps, pointer_end |-> pe]

\* INSERT ... without the conflict clause
InsertAlways(store, row) == store \cup {row}

\* INSERT ... ON CONFLICT (item_id, chunk_index) DO NOTHING
InsertOrIgnore(store, row) ==
  IF \E r \in store : r.item_id = row.item_id /\ r.chunk_index = row.chunk_index
    THEN store
    ELSE store \cup {row}

\* The statements of one transaction, one for each row of batch.  The keys
\* of one batch are pairwise distinct (the index is enumerated), so no
\* statement of the batch conflicts with another one of it and each is
\* decided against the store as the transaction found it.
InsertRange(store, batch) ==
  UNION ({store} \cup {InsertOrIgnore(store, row) : row \in batch})

PointerType(k) ==
  CASE k = "WEB" -> "URL" [] k = "AUDIO" -> "AUDIO_MS" [] k = "PDF" -> "PDF_PAGE"
    [] k = "MARKDOWN" -> "NOTE_RANGE" [] k = "IMAGE" -> "IMAGE_REF"
PointerStart(k) ==
  CASE k = "WEB" -> "url" [] k = "IMAGE" -> "raw_object_key" [] OTHER -> "0"
PointerEnd(k) ==
  CASE k \in {"WEB", "IMAGE"} -> "" [] OTHER -> "0"

\* AllNone with one entry less
AllNoneShort(n) == [i \in 1 .. (n - 1) |-> NULL]

\* [None for _ in texts]
AllNone(n) == [i \in 1 .. n |-> NULL]

\* [d.embedding for d in resp.data]: one vector for each entry of the answer
Vectors(m) == [i \in 1 .. m |-> "vec"]

\* The lengths of resp.data tried for a request of n texts.
ProviderLens(n) == {m \in {n - 1, n, n + 1} : m >= 0}

\* _embed_or_none(texts) for n texts: what happened and the list returned.
\* Without a key the provider is not called; with one, embed_texts raises
\* (caught: all None) or returns the list made of the provider's answer.
EmbedOrNone(key, n) ==
  IF key = "unset"
    THEN {<<"no_key", AllNone(n)>>}
    ELSE {<<"raised", AllNone(n)>>} \cup {<<"returned", Vectors(m)>> : m \in ProviderLens(n)}

\* zip(chunk_texts, embeddings) stops at the shorter of the two
ZipLen(n, embeddings) == Min(n, Len(embeddings))

\* _insert_chunks: enumerate(zip(chunk_texts, embeddings)), one commit
InsertChunks(store, p, id, k, src, n, embeddings) ==
  LET rows(idx) == Row(p, id, idx, ChunkTextOf(src, 0, idx), embeddings[idx + 1],
                       PointerType(k), PointerStart(k), PointerEnd(k))
  IN InsertRange(store, {rows(idx) : idx \in 0 .. (ZipLen(n, embeddings) - 1)})

\* InsertChunksNoEmbed with a vector in every row
InsertChunksEmbed(store, p, id, k, src, n) ==
  LET rows(idx) == Row(p, id, idx, ChunkTextOf(src, 0, idx), "vec",
                       PointerType(k), PointerStart(k), PointerEnd(k))
  IN InsertRange(store, {rows(idx) : idx \in 0 .. (n - 1)})

\* _insert_chunks_no_embed: enumerate(chunk_texts), embedding NULL, one commit
InsertChunksNoEmbed(store, p, id, k, src, n) ==
  LET rows(idx) == Row(p, id, idx, ChunkTextOf(src, 0, idx), NULL,
                       PointerType(k), PointerStart(k), PointerEnd(k))
  IN InsertRange(store, {rows(idx) : idx \in 0 .. (n - 1)})

\* The task that stores its chunks with _insert_chunks (the others call
\* _insert_chunks_no_embed).
Embeds(k) == k = "IMAGE"

\* CapChunks without the truncation
NoCap(n, cap) == n

\* if len(chunks) > cap: chunks = chunks[:cap]
CapChunks(n, cap) == IF n > cap THEN cap ELSE n

CapOf(k) == CASE k = "WEB" -> WebCap [] k = "AUDIO" -> AudioCap [] OTHER -> DocCap

\* Lengths of a chunk list tried by the model.
NChoices(cap) == (0 .. MaxSmall) \cup {cap + 1}

\* Chunk counts of one PDF page tried by the model: a blank page, a page of
\* one chunk, a page that nearly fills the cap.
PageCounts == {0, 1, DocCap - 1}

\* The files tried by the model at the file_path of a task.
FilesOf(k) ==
  IF k \in {"AUDIO", "PDF", "MARKDOWN"} THEN {"ok", "too_large", "missing"} ELSE {"ok"}

\* The submissions tried by the model.  The text of a WEB page and the
\* transcript of an AUDIO file are obtained by the pass (see ChunkLists).
DocsOf(k) ==
  CASE k = "MARKDOWN" -> {<<n>> : n \in NChoices(DocCap)}
    [] k = "IMAGE" -> {<<n>> : n \in 1 .. (MaxSmall + 1)}
    [] k = "PDF" -> [1 .. MaxPages -> PageCounts]
    [] OTHER -> {<<>>}

\* str(e) of the exception delivered at the soft time limit, as written by the
\* handler that catches it (ingest_web has no SoftTimeLimitExceeded clause).
TimeoutReason(k) ==
  CASE k = "WEB" -> "str(SoftTimeLimitExceeded)"
    [] k = "AUDIO" -> "audio_ingest_timeout"
    [] OTHER -> "document_ingest_timeout"

Set(p, rec) == pass' = [pass EXCEPT ![p] = rec]
Goto(p, where) == pass' = [pass EXCEPT ![p].pc = where]
\* An exception reaches the outer handler: the locals of the body are dead.
Raise(p, reason) ==
  pass' = [pass EXCEPT ![p] = [IdlePass EXCEPT !.pc = "handler", !.item = pass[p].item,
                                               !.soft = pass[p].soft, !.exc = reason]]
\* An exception raised between the INSERT statements of a batch and their
\* commit reaches the outer handler: the statements stay pending in the session.
RaiseIn(p, reason, pending) ==
  pass' = [pass EXCEPT ![p] = [IdlePass EXCEPT !.pc = "handler", !.item = pass[p].item,
                                               !.soft = pass[p].soft, !.exc = reason,
                                               !.tx = pending]]
\* The execution is over (returned, raised or killed); db.close() or the loss
\* of the connection ends the session, and what it held uncommitted is gone.
End(p, how) ==
  pass' = [pass EXCEPT ![p] = [IdlePass EXCEPT !.pc = how, !.item = pass[p].item]]

(***************************************************************************)
(* The API layer: an accepted submission inserts the item as PENDING and   *)
(* queues the task.                                                        *)
(***************************************************************************)
\* Scenario bound: the second submission is of the same kind as the first and
\* has the same content.
CreateItem(i, k) ==
  /\ items[i].status = "ABSENT"
  /\ i = "i2" => items["i1"].kind = k /\ At(2, "idle")
  /\ \E f \in (IF i = "i2" THEN {items["i1"].file} ELSE FilesOf(k)) :
     \E d \in (IF i = "i2" THEN {items["i1"].doc}
                ELSE IF f = "ok" THEN DocsOf(k) ELSE {<<>>}) :
       items' = [items EXCEPT ![i] = [kind |-> k, status |-> "PENDING",
                                      error_message |-> NULL, metadata |-> {},
                                      doc |-> d, file |-> f]]
  /\ UNCHANGED <<chunks, pass, apiKey, ck, rq, nv>>

\* A worker takes a queued task for item i (a first or a repeated delivery).
\* The scenarios of the model: pass 1 works on item i1; pass 2 works on item
\* i2 when a second submission was accepted, and is a second execution for
\* item i1 otherwise.
StartPass(p, i) ==
  /\ At(p, "idle")
  /\ p > 1 => ~ At(p - 1, "idle")
  /\ items[i].status # "ABSENT"
  /\ i = (IF p = 1 \/ items["i2"].status = "ABSENT" THEN "i1" ELSE "i2")
  /\ Set(p, [IdlePass EXCEPT !.pc = "set_processing", !.item = i])
  /\ UNCHANGED <<items, chunks, apiKey, ck, rq, nv>>

(***************************************************************************)
(* Steps of the task bodies                                                *)
(***************************************************************************)
\* AfterProcessing for tasks without the size guard
AfterProcessingNoGuard(k) ==
  CASE k = "WEB" -> "extract" [] k = "AUDIO" -> "check_key"
    [] k \in {"PDF", "MARKDOWN"} -> "extract" [] k = "IMAGE" -> "merge_meta"

\* The statement that follows _set_status(db, item_id, "PROCESSING", None)
AfterProcessing(k) ==
  CASE k = "WEB" -> "extract" [] k = "AUDIO" -> "check_key"
    [] k \in {"PDF", "MARKDOWN"} -> "size" [] k = "IMAGE" -> "merge_meta"

\* _set_status(db, item_id, "PROCESSING", None)
SetProcessing(p) ==
  /\ At(p, "set_processing")
  /\ items' = SetStatus(items, ItemOf(p), "PROCESSING", NULL)
  /\ Goto(p, AfterProcessing(KindOf(p)))
  /\ UNCHANGED <<chunks, apiKey, ck, rq, nv>>

\* ingest_audio: if not settings.OPENAI_API_KEY: raise RuntimeError
CheckKey(p) ==
  /\ At(p, "check_key")
  /\ \E key \in ReadKey :
       /\ apiKey' = key
       /\ IF key = "set" THEN Goto(p, "size") ELSE Raise(p, "OPENAI_API_KEY is not set")
  /\ UNCHANGED <<items, chunks, ck, rq, nv>>

\* os.path.getsize(file_path) > max_bytes / OSError
SizeGuard(p) ==
  /\ At(p, "size")
  /\ LET w == IF KindOf(p) = "AUDIO" THEN "audio" ELSE "document"
         f == items[ItemOf(p)].file
     IN
     \/ /\ f = "ok"
        /\ Goto(p, IF KindOf(p) = "AUDIO" THEN "transcribe" ELSE "extract")
     \/ /\ f = "too_large"
        /\ Raise(p, IF w = "audio" THEN "audio_file_too_large_max_25mb"
                    ELSE "document_file_too_large_max_25mb")
     \/ /\ f = "missing"
        /\ Raise(p, IF w = "audio" THEN "audio_file_missing" ELSE "document_file_missing")
  /\ UNCHANGED <<items, chunks, apiKey, ck, rq, nv>>

\* ingest_web: _run_with_timeout(extract_web_text, 40, url) and its fallbacks
ExtractWeb(p) ==
  /\ At(p, "extract") /\ KindOf(p) = "WEB"
  /\ \/ Set(p, [pass[p] EXCEPT !.pc = "update_item", !.src = "text",
                               !.meta = {<<"domain", "netloc">>}])
     \/ Set(p, [pass[p] EXCEPT !.pc = "update_item", !.src = NULL,
                 !.meta = {<<"domain", "netloc">>, <<"extract_error", "str(e)">>}])
     \/ Goto(p, "extract_join")   \* the call stalls: result(timeout=40) raises
  /\ UNCHANGED <<items, chunks, apiKey, ck, rq, nv>>

\* ingest_document: extract_pdf_text_from_path / extract_md_text
ExtractDoc(p) ==
  /\ At(p, "extract") /\ KindOf(p) \in {"PDF", "MARKDOWN"}
  /\ \/ Set(p, [pass[p] EXCEPT !.pc = "update_item", !.src = "text",
                               !.meta = {<<"file_type", KindOf(p)>>}])
     \/ Raise(p, "extract_error")
  /\ UNCHANGED <<items, chunks, apiKey, ck, rq, nv>>

\* The texts of the transcription provider tried by the model: the length of
\* tr.text and its length after trimming.
ProviderTexts ==
  {<<0, 0>>, <<2, 0>>, <<1, 1>>, <<TranscriptCap, TranscriptCap>>,
   <<TranscriptCap + 2, TranscriptCap>>, <<TranscriptCap + 3, TranscriptCap + 1>>}

\* (tr.text or "").strip(): the whole trimmed text, as offset and length
StripText(t) == <<0, t[2]>>

\* Truncate without the cut
TruncateNone(t) == t

\* if len(transcript) > max_chars: transcript = transcript[:max_chars]
Truncate(t) == <<t[1], Min(t[2], TranscriptCap)>>

\* ingest_audio: transcription, empty check, truncation to 60000 characters
Transcribe(p) ==
  /\ At(p, "transcribe")
  /\ \/ \E t \in ProviderTexts :
          LET transcript == StripText(t)
              truncated == transcript[2] > TranscriptCap
          IN IF transcript[2] = 0
               THEN Raise(p, "Empty transcript")
               ELSE Set(p, [pass[p] EXCEPT !.pc = "update_item", !.src = "text",
                      !.tr = Append(Truncate(transcript), transcript[2]),
                      !.meta = {<<"transcript_preview", "text">>,
                                <<"transcript_truncated", ToString(truncated)>>}])
     \/ Raise(p, "transcribe_error")
  /\ UNCHANGED <<items, chunks, apiKey, ck, rq, nv>>

\* UPDATE knowledge_items SET title=..., source_uri=... ; db.commit()
UpdateItem(p) ==
  /\ At(p, "update_item")
  /\ Goto(p, "merge_meta")
  /\ UNCHANGED <<items, chunks, apiKey, ck, rq, nv>>

ImagePayload == {<<"tags", "tags">>, <<"description_text", "description">>}

\* _merge_metadata(db, item_id, ...)
MergeMeta(p) ==
  /\ At(p, "merge_meta")
  /\ items' = MergeMetadata(items, ItemOf(p),
                 IF KindOf(p) = "IMAGE" THEN ImagePayload ELSE pass[p].meta)
  /\ IF KindOf(p) = "PDF"
       THEN Set(p, [pass[p] EXCEPT !.pc = "pages", !.meta = {}, !.pg = 1, !.chunk_idx = 0])
       ELSE Set(p, [pass[p] EXCEPT !.pc = "chunk", !.meta = {}])
  /\ UNCHANGED <<chunks, apiKey, ck, rq, nv>>

\* The chunk list is ready: cap it and go on to the insert.
Chunked(p, s, n) ==
  Set(p, [pass[p] EXCEPT !.pc = "insert", !.src = s, !.emitted = n, !.tr = <<>>,
            !.n = IF KindOf(p) = "IMAGE" THEN n ELSE CapChunks(n, CapOf(KindOf(p)))])

\* Lengths of the chunk list of a text that is not empty after trimming.
NonEmptyChoices(k) == NChoices(CapOf(k)) \ {0}

\* The content names are arbitrary: the one pass 1 sees is called "A".
ContentsOf(p) == IF p = 1 THEN {"A"} ELSE Contents

\* The chunk lists a chunker call of a pass of kind k may return.  The page of
\* a WEB item and the transcript of an AUDIO item (and the chunker used for
\* it) may differ from one pass to the next; an uploaded file and the task
\* arguments do not.
ChunkLists(p, k, src) ==
  CASE k = "WEB" -> IF src = NULL THEN {<<NULL, 0>>} ELSE ContentsOf(p) \X NonEmptyChoices(k)
    [] k = "AUDIO" -> ContentsOf(p) \X NonEmptyChoices(k)
    [] k \in {"MARKDOWN", "IMAGE"} -> {<<"A", items[ItemOf(p)].doc[1]>>}

\* The chunker call of the WEB, AUDIO, MARKDOWN and IMAGE passes.
\*   WEB:      _run_with_timeout(_simple_chunks, 10, text_content), else _simple_chunks
\*   AUDIO:    _run_with_timeout(chunk_text, 20, transcript), else _simple_chunks
\*   MARKDOWN: chunk_text(md_text)
\*   IMAGE:    chunk_text(searchable) or [searchable]
\* chunk_text does not return when a packed chunk is longer than max_chars
\* (default overlap 200 > 0, see WindowStep): the call hangs.
Chunk(p) ==
  /\ At(p, "chunk")
  /\ \/ \E l \in ChunkLists(p, KindOf(p), pass[p].src) : Chunked(p, l[1], l[2])
     \/ /\ KindOf(p) \in {"AUDIO", "MARKDOWN", "IMAGE"}
        /\ Goto(p, "chunk_hung")
  /\ UNCHANGED <<items, chunks, apiKey, ck, rq, nv>>

\* _insert_chunks_no_embed(...) / _insert_chunks(...): nothing when the list is empty
Insert(p) ==
  /\ At(p, "insert")
  /\ IF Embeds(KindOf(p)) /\ pass[p].n > 0
       THEN \E key \in ReadKey :
              /\ apiKey' = key
              /\ \/ \E out \in EmbedOrNone(key, pass[p].n) :
                      /\ chunks' = InsertChunks(chunks, p, ItemOf(p), KindOf(p),
                                                pass[p].src, pass[p].n, out[2])
                      /\ Set(p, [pass[p] EXCEPT !.pc = "set_ready", !.embed = out[1],
                                   !.chunk_idx = ZipLen(pass[p].n, out[2])])
                 \/ /\ key = "set"     \* embed_texts stalls: result(timeout=70) raises
                    /\ Set(p, [pass[p] EXCEPT !.pc = "embed_join", !.embed = "stalled"])
                    /\ UNCHANGED chunks
       ELSE /\ chunks' = InsertChunksNoEmbed(chunks, p, ItemOf(p), KindOf(p), pass[p].src,
                                             pass[p].n)
            /\ Goto(p, "set_ready")
            /\ UNCHANGED apiKey
  /\ UNCHANGED <<items, ck, rq, nv>>

\* `with ThreadPoolExecutor(...) as executor` leaves through
\* executor.shutdown(wait=True): after future.result(timeout=...) has raised,
\* the caller joins the pool thread.  The step below is the stalled call
\* coming to an end at last; the TimeoutError then reaches `except Exception`
\* (ingest_web: empty text and extract_error; _embed_or_none: all None).
StalledCallEnds(p) ==
  /\ \/ /\ At(p, "extract_join")
        /\ Set(p, [pass[p] EXCEPT !.pc = "update_item", !.src = NULL,
                     !.meta = {<<"domain", "netloc">>, <<"extract_error", "str(e)">>}])
        /\ UNCHANGED chunks
     \/ /\ At(p, "embed_join")
        /\ chunks' = InsertChunks(chunks, p, ItemOf(p), KindOf(p), pass[p].src,
                                  pass[p].n, AllNone(pass[p].n))
        /\ Set(p, [pass[p] EXCEPT !.pc = "set_ready", !.chunk_idx = pass[p].n])
  /\ UNCHANGED <<items, apiKey, ck, rq, nv>>

\* PageStr counting the pages from 0
PageStrFromZero(i) == ToString(i - 1)

\* "ps": str(i), "pe": str(i) with i from enumerate(pages, start=1)
PageStr(i) == ToString(i)

\* How many chunks of a page with c chunks the inner loop inserts before
\* chunk_idx >= max_total_chunks breaks it; idx is chunk_idx at the page start.
PageTake(c, idx) == Min(c, DocCap - idx)

\* NextIdx with the counter restarted at each page
NextIdxReset(idx, taken) == taken

\* chunk_idx after a page of which `taken` chunks were inserted
NextIdx(idx, taken) == idx + taken

\* One iteration of `for i, page_text in enumerate(pages, start=1)`, with its
\* db.commit(), or the end of the loop.
PdfPage(p) ==
  /\ At(p, "pages")
  /\ LET pg == pass[p].pg
         idx == pass[p].chunk_idx
         pages == items[ItemOf(p)].doc
     IN
     \/ /\ pg > Len(pages)                      \* no page left
        /\ Goto(p, "set_ready")
        /\ UNCHANGED chunks
     \/ /\ pg <= Len(pages)
        /\ \E c \in {pages[pg]} :
             LET taken == PageTake(c, idx)
                 rows(j) == Row(p, ItemOf(p), j,
                                ChunkTextOf("A", pg, pass[p].emitted + (j - idx)),
                                NULL, "PDF_PAGE", PageStr(pg), PageStr(pg))
                 idx2 == IF c = 0 THEN idx ELSE NextIdx(idx, taken)
             IN
             /\ chunks' = IF c = 0 THEN chunks
                          ELSE InsertRange(chunks, {rows(j) : j \in idx .. (idx + taken - 1)})
             /\ Set(p, [pass[p] EXCEPT
                   !.pc = IF c > 0 /\ idx2 >= DocCap THEN "set_ready" ELSE "pages",
                   !.pg = pg + 1, !.chunk_idx = idx2, !.emitted = @ + c])
     \/ /\ pg <= Len(pages) /\ pages[pg] > 0     \* chunk_text(page_text) hangs
        /\ Goto(p, "chunk_hung")
        /\ UNCHANGED chunks
  /\ UNCHANGED <<items, apiKey, ck, rq, nv>>

\* _set_status(db, item_id, "READY", None)
SetReady(p) ==
  /\ At(p, "set_ready")
  /\ items' = SetStatus(items, ItemOf(p), "READY", NULL)
  /\ Goto(p, "try_end")
  /\ UNCHANGED <<chunks, apiKey, ck, rq, nv>>

\* How many INSERT statements of a batch of n had been executed when the
\* batch was interrupted: none, the first, or all of them (the commit failed).
StmtsDone(n) == {j \in {0, 1, n} : j <= n}

\* The rows of the first j statements of the insert loop of pass p
\* (_insert_chunks_no_embed, or _insert_chunks with the list embeddings).
StmtRows(p, j, embeddings) ==
  LET k == KindOf(p)
  IN {Row(p, ItemOf(p), idx, ChunkTextOf(pass[p].src, 0, idx),
          IF Embeds(k) THEN embeddings[idx + 1] ELSE NULL,
          PointerType(k), PointerStart(k), PointerEnd(k)) : idx \in 0 .. (j - 1)}

\* The rows of the first j statements of the page the PDF loop of pass p is at.
PageStmtRows(p, j) ==
  LET pg == pass[p].pg
      idx == pass[p].chunk_idx
  IN {Row(p, ItemOf(p), i, ChunkTextOf("A", pg, pass[p].emitted + (i - idx)),
          NULL, "PDF_PAGE", PageStr(pg), PageStr(pg)) : i \in idx .. (idx + j - 1)}

\* What the session of pass p may hold uncommitted when an exception is
\* raised at its position: statements of the batch (of the page) it is in.
Pending(p, embeddings) ==
  IF At(p, "insert")
    THEN {StmtRows(p, j, embeddings) :
            j \in StmtsDone(IF Embeds(KindOf(p)) THEN ZipLen(pass[p].n, embeddings)
                            ELSE pass[p].n)}
    ELSE IF At(p, "pages") /\ pass[p].pg <= Len(items[ItemOf(p)].doc)
           THEN {PageStmtRows(p, j) :
                   j \in StmtsDone(PageTake(items[ItemOf(p)].doc[pass[p].pg],
                                            pass[p].chunk_idx))}
           ELSE {{}}

\* _set_status without its db.rollback(): its db.commit() carries the
\* statements pending in the session
RollbackSkipped(store, pending) == InsertRange(store, pending)

\* db.rollback() at the head of _set_status: the statements pending in the
\* session are discarded, the commit that follows carries the UPDATE alone
Rollback(store, pending) == store

\* Handler, were the failure to take the chunks of the item with it
HandlerDeletes(p) ==
  /\ At(p, "handler")
  /\ items' = SetStatus(items, ItemOf(p), "FAILED", pass[p].exc)
  /\ Set(p, [pass[p] EXCEPT !.pc = "close", !.exc = NULL, !.tx = {}])
  /\ chunks' = {r \in chunks : r.item_id # ItemOf(p)}
  /\ UNCHANGED <<apiKey, ck, rq, nv>>

\* except ...: _set_status(db, item_id, "FAILED", reason)
Handler(p) ==
  /\ At(p, "handler")
  /\ chunks' = Rollback(chunks, pass[p].tx)
  /\ items' = SetStatus(items, ItemOf(p), "FAILED", pass[p].exc)
  /\ Set(p, [pass[p] EXCEPT !.pc = "close", !.exc = NULL, !.tx = {}])
  /\ UNCHANGED <<apiKey, ck, rq, nv>>

\* finally: db.close(), and the task function returns
Return(p) ==
  /\ pass[p].pc \in {"try_end", "close"}
  /\ End(p, "returned")
  /\ UNCHANGED <<items, chunks, apiKey, ck, rq, nv>>

(***************************************************************************)
(* What the environment does to a running pass                             *)
(***************************************************************************)

\* Positions whose next statement is a database statement or commit.
AtDb(p) ==
  \/ pass[p].pc \in {"set_processing", "update_item", "merge_meta", "pages",
                     "set_ready", "handler"}
  \/ At(p, "insert") /\ pass[p].n > 0

\* A statement or commit raises (connection lost, server error).  In the task
\* body the outer `except Exception` catches it, with the statements of the
\* batch executed before it still pending (_insert_chunks has called
\* _embed_or_none before its first statement); raised by the _set_status call
\* of the handler itself it leaves the task function.
StorageFail(p) ==
  /\ AtDb(p)
  /\ IF At(p, "handler")
       THEN End(p, "raised") /\ UNCHANGED apiKey
       ELSE IF At(p, "insert") /\ Embeds(KindOf(p))
              THEN \E key \in ReadKey :
                     /\ apiKey' = key
                     /\ \E out \in EmbedOrNone(key, pass[p].n) :
                          \E pending \in Pending(p, out[2]) :
                            RaiseIn(p, "storage_error", pending)
              ELSE /\ \E pending \in Pending(p, <<>>) : RaiseIn(p, "storage_error", pending)
                   /\ UNCHANGED apiKey
  /\ UNCHANGED <<items, chunks, ck, rq, nv>>

\* As CaughtBy below, were no call guarded by a try of its own.
CaughtByOuter(k, pc) ==
  CASE pc \in {"handler", "close"} -> {"none"}
    [] pc = "try_end" -> {"outer", "none"}
    [] OTHER -> {"outer"}

\* Where the SoftTimeLimitExceeded raised at position pc of a task of kind k
\* is caught: by the `try` around the extractor or chunker call ("inner"), by
\* the task's outer handler ("outer"), or by nothing ("none").
CaughtBy(k, pc) ==
  CASE k = "WEB" /\ pc \in {"extract", "extract_join"} -> {"inner"}
    [] k \in {"WEB", "AUDIO"} /\ pc \in {"chunk", "chunk_hung"} -> {"inner"}
    [] pc \in {"handler", "close"} -> {"none"}
    [] pc = "try_end" -> {"outer", "none"}
    [] OTHER -> {"outer"}

\* Celery raises SoftTimeLimitExceeded in the task, once, at the position the
\* task has reached when soft_time_limit expires.
SoftLimit(p) ==
  /\ Running(p) /\ HasTimeLimits(KindOf(p)) /\ ~ pass[p].soft
  /\ LET k == KindOf(p)
         here == pass[p].pc
         r == [pass[p] EXCEPT !.soft = TRUE]
     IN \E c \in CaughtBy(k, here) :
          \/ /\ c = "inner" /\ here \in {"extract", "extract_join"}
             /\ Set(p, [r EXCEPT !.pc = "update_item", !.src = NULL,
                   !.meta = {<<"domain", "netloc">>, <<"extract_error", "soft_time_limit">>}])
          \/ /\ c = "inner" /\ here \notin {"extract", "extract_join"}
             /\ \E l \in ChunkLists(p, k, pass[p].src) :
                  Set(p, [r EXCEPT !.pc = "insert", !.src = l[1], !.emitted = l[2],
                            !.tr = <<>>, !.n = CapChunks(l[2], CapOf(k))])
          \/ /\ c = "outer"
             /\ \E pending \in Pending(p, <<>>) :
                  Set(p, [IdlePass EXCEPT !.pc = "handler", !.item = pass[p].item,
                                          !.soft = TRUE, !.exc = TimeoutReason(k),
                                          !.tx = pending])
          \/ /\ c = "none"
             /\ End(p, "raised")
  /\ UNCHANGED <<items, chunks, apiKey, ck, rq, nv>>

\* time_limit expires: the pool kills the worker process; no handler runs.
HardKill(p) ==
  /\ Running(p) /\ HasTimeLimits(KindOf(p)) /\ pass[p].soft
  /\ End(p, "killed")
  /\ UNCHANGED <<items, chunks, apiKey, ck, rq, nv>>

\* The endless chunk_text loop exhausts memory: MemoryError.  In ingest_audio
\* it is raised in the pool thread and the pass falls back to _simple_chunks.
OutOfMemory(p) ==
  /\ At(p, "chunk_hung")
  /\ IF KindOf(p) = "AUDIO"
       THEN \E l \in ChunkLists(p, "AUDIO", pass[p].src) :
              Set(p, [pass[p] EXCEPT !.pc = "insert", !.src = l[1], !.emitted = l[2],
                        !.tr = <<>>, !.n = CapChunks(l[2], AudioCap)])
       ELSE Raise(p, "MemoryError")
  /\ UNCHANGED <<items, chunks, apiKey, ck, rq, nv>>

(***************************************************************************)
(* The ingestion pipeline                                                  *)
(***************************************************************************)
Init ==
  /\ items = [i \in Items |-> NoItem]
  /\ chunks = {}
  /\ pass = [p \in Passes |-> IdlePass]
  /\ apiKey = "unread"
  /\ ck = IdleChunker
  /\ rq = IdleRetrieve
  /\ nv = IdleNorm

Next ==
  \/ \E i \in Items, k \in Kinds : CreateItem(i, k)
  \/ \E p \in Passes, i \in Items : StartPass(p, i)
  \/ \E p \in Passes : SetProcessing(p)
  \/ \E p \in Passes : CheckKey(p)
  \/ \E p \in Passes : SizeGuard(p)
  \/ \E p \in Passes : ExtractWeb(p)
  \/ \E p \in Passes : ExtractDoc(p)
  \/ \E p \in Passes : Transcribe(p)
  \/ \E p \in Passes : UpdateItem(p)
  \/ \E p \in Passes : MergeMeta(p)
  \/ \E p \in Passes : Chunk(p)
  \/ \E p \in Passes : Insert(p)
  \/ \E p \in Passes : StalledCallEnds(p)
  \/ \E p \in Passes : PdfPage(p)
  \/ \E p \in Passes : SetReady(p)
  \/ \E p \in Passes : Handler(p)
  \/ \E p \in Passes : Return(p)
  \/ \E p \in Passes : StorageFail(p)
  \/ \E p \in Passes : SoftLimit(p)
  \/ \E p \in Passes : HardKill(p)
  \/ \E p \in Passes : OutOfMemory(p)

Spec == Init /\ [][Next]_vars

(***************************************************************************)
(* The chunker (backend/app/ingest/chunking.py) and _simple_chunks.        *)
(* A text is a sequence of characters.                                     *)
(***************************************************************************)
Alphabet == {"a", "b", "\n"}

IsSpace(c) == c \in {" ", "\n"}

Max(a, b) == IF a > b THEN a ELSE b

\* str.strip()
RECURSIVE LStrip(_)
LStrip(s) == IF s = <<>> THEN s ELSE IF IsSpace(Head(s)) THEN LStrip(Tail(s)) ELSE s
RECURSIVE RStrip(_)
RStrip(s) ==
  IF s = <<>> THEN s
  ELSE IF IsSpace(s[Len(s)]) THEN RStrip(SubSeq(s, 1, Len(s) - 1)) ELSE s
Strip(s) == RStrip(LStrip(s))

\* s[i:j] for 0 <= i, j
Slice(s, i, j) == SubSeq(s, i + 1, Min(j, Len(s)))

\* text.split("\n\n")
RECURSIVE SplitParas(_)
SplitParas(s) ==
  LET at == {n \in 1 .. (Len(s) - 1) : s[n] = "\n" /\ s[n + 1] = "\n"} IN
  IF at = {} THEN <<s>>
  ELSE LET n == CHOOSE m \in at : \A q \in at : m <= q
       IN <<SubSeq(s, 1, n - 1)>> \o SplitParas(SubSeq(s, n + 2, Len(s)))

\* [f(x) for x in xs if f(x)] with f = strip
RECURSIVE StripAll(_)
StripAll(xs) ==
  IF xs = <<>> THEN <<>>
  ELSE LET x == Strip(Head(xs)) IN
       (IF x = <<>> THEN <<>> ELSE <<x>>) \o StripAll(Tail(xs))

\* flush(b)
Flush(acc, b) == IF Strip(b) = <<>> THEN acc ELSE Append(acc, Strip(b))

\* if len(buf) + len(p) + 2 <= max_chars
Fits(buf, p, max_chars) == Len(buf) + Len(p) + 2 <= max_chars

\* for p in paras: ... ; flush(buf)
RECURSIVE PackParas(_, _, _, _)
PackParas(paras, acc, buf, max_chars) ==
  IF paras = <<>> THEN Flush(acc, buf)
  ELSE LET p == Head(paras) IN
       IF Fits(buf, p, max_chars)
         THEN PackParas(Tail(paras), acc, Strip(buf \o <<"\n", "\n">> \o p), max_chars)
         ELSE PackParas(Tail(paras), Flush(acc, buf), p, max_chars)

\* WindowEnd with a window one character too long
WindowEndLong(len, i, max_chars) == Min(len, i + max_chars + 1)

\* j = min(len(c), i + max_chars)
WindowEnd(len, i, max_chars) == Min(len, i + max_chars)

\* WindowNext stepping one character too far
WindowNextSkip(j, overlap) == Max(0, j - overlap) + 1

\* i = max(0, j - overlap)
WindowNext(j, overlap) == Max(0, j - overlap)

\* _simple_chunks: [text[i:i+max].strip() for i in range(0, len(text), max) if ...]
SimpleChunksOf(text, max_chars) ==
  LET t == Strip(text)
      RECURSIVE From(_)
      From(n) == IF n >= Len(t) THEN <<>>
                 ELSE <<Slice(t, n, n + max_chars)>> \o From(n + max_chars)
  IN StripAll(From(0))

CurrentChunk == ck.chunks[ck.k]

\* chunk_text, lines 9-28: trim, split into paragraphs, pack
PackStep ==
  /\ ck.pc = "start" /\ ck.fn = "chunk_text"
  /\ LET t == Strip(ck.text) IN
     IF t = <<>>
       THEN ck' = [ck EXCEPT !.pc = "done", !.result = <<>>]
       ELSE ck' = [ck EXCEPT !.pc = "enforce", !.k = 1,
                     !.chunks = PackParas(StripAll(SplitParas(t)), <<>>, <<>>, ck.max_chars)]
  /\ UNCHANGED <<items, chunks, pass, apiKey, rq, nv>>

\* for c in chunks: if len(c) <= max_chars: final.append(c) else: i = 0
EnforceStep ==
  /\ ck.pc = "enforce" /\ ck.k <= Len(ck.chunks)
  /\ IF Len(CurrentChunk) <= ck.max_chars
       THEN ck' = [ck EXCEPT !.k = @ + 1, !.final = Append(@, CurrentChunk),
                             !.ovl = Append(@, 0)]
       ELSE ck' = [ck EXCEPT !.pc = "window", !.i = 0, !.iters = 0]
  /\ UNCHANGED <<items, chunks, pass, apiKey, rq, nv>>

NonSpace(s) == SelectSeq(s, LAMBDA c : ~ IsSpace(c))

\* One iteration of `while i < len(c)`
WindowStep ==
  /\ ck.pc = "window" /\ ck.i < Len(CurrentChunk)
  /\ ck.iters < MaxIter
  /\ LET c == CurrentChunk
         j == WindowEnd(Len(c), ck.i, ck.max_chars)
         prevj == IF ck.iters = 0 THEN ck.i ELSE ck.i + ck.overlap
     IN ck' = [ck EXCEPT !.final = Append(@, Strip(Slice(c, ck.i, j))),
                         !.ovl = Append(@, Len(NonSpace(Slice(c, ck.i, Min(prevj, j))))),
                         !.i = WindowNext(j, ck.overlap),
                         !.iters = @ + 1, !.windows = @ + 1]
  /\ UNCHANGED <<items, chunks, pass, apiKey, rq, nv>>

\* `while i < len(c)` is left: next packed chunk
WindowExit ==
  /\ ck.pc = "window" /\ ~ (ck.i < Len(CurrentChunk))
  /\ ck' = [ck EXCEPT !.pc = "enforce", !.k = @ + 1]
  /\ UNCHANGED <<items, chunks, pass, apiKey, rq, nv>>

\* return [c for c in (x.strip() for x in final) if c]
ReturnStep ==
  /\ ck.pc = "enforce" /\ ck.k > Len(ck.chunks)
  /\ LET keep == {n \in 1 .. Len(ck.final) : Strip(ck.final[n]) # <<>>}
         RECURSIVE Pick(_, _)
         Pick(xs, n) == IF n > Len(ck.final) THEN <<>>
                        ELSE (IF n \in keep THEN <<xs[n]>> ELSE <<>>) \o Pick(xs, n + 1)
     IN ck' = [ck EXCEPT !.pc = "done", !.result = StripAll(ck.final),
                         !.rovl = Pick(ck.ovl, 1)]
  /\ UNCHANGED <<items, chunks, pass, apiKey, rq, nv>>

\* _simple_chunks(text, max_chars)
SimpleStep ==
  /\ ck.pc = "start" /\ ck.fn = "_simple_chunks"
  /\ ck' = [ck EXCEPT !.pc = "done", !.result = SimpleChunksOf(ck.text, ck.max_chars)]
  /\ UNCHANGED <<items, chunks, pass, apiKey, rq, nv>>

RECURSIVE TextsOfLen(_)
TextsOfLen(n) ==
  IF n = 0 THEN {<<>>}
  ELSE {Append(t, c) : t \in TextsOfLen(n - 1), c \in Alphabet}

Texts == UNION {TextsOfLen(n) : n \in 0 .. MaxLen}

ChunkerCalls ==
  {[IdleChunker EXCEPT !.pc = "start", !.fn = "chunk_text", !.text = t,
                       !.max_chars = m, !.overlap = o] :
       t \in Texts, m \in 1 .. MaxChars, o \in 0 .. (MaxChars - 1)}
  \cup
  {[IdleChunker EXCEPT !.pc = "start", !.fn = "_simple_chunks", !.text = t,
                       !.max_chars = m] : t \in Texts, m \in 1 .. MaxChars}

InitChunk ==
  /\ items = [i \in Items |-> NoItem]
  /\ chunks = {}
  /\ pass = [p \in Passes |-> IdlePass]
  /\ apiKey = "unread"
  /\ ck \in {c \in ChunkerCalls : c.overlap < c.max_chars}
  /\ rq = IdleRetrieve
  /\ nv = IdleNorm

NextChunk ==
  \/ PackStep
  \/ EnforceStep
  \/ WindowStep
  \/ WindowExit
  \/ ReturnStep
  \/ SimpleStep

ChunkSpec == InitChunk /\ [][NextChunk]_vars

(***************************************************************************)
(* Claims about the chunker (ChunkSpec)                                    *)
(***************************************************************************)

\* C4: every iteration of the sliding-window loop of chunk_text moves the
\* window start forward (never by zero or by a negative amount), for every
\* packed chunk longer than max_chars and every 0 <= overlap < max_chars.
\* (The claimed step of exactly max_chars - overlap is not required here.)
C4_WindowAdvances ==
  [][(ck.pc = "window" /\ ck'.pc = "window" /\ ck'.iters = ck.iters + 1)
       => ck'.i > ck.i]_vars

\* C5: every element of the sequence returned by chunk_text or by
\* _simple_chunks is at most max_chars long and not empty after trimming, and
\* an empty or whitespace-only input yields the empty sequence.
C5_ChunkBounds ==
  ck.pc = "done" =>
    /\ \A n \in 1 .. Len(ck.result) :
         Len(ck.result[n]) <= ck.max_chars /\ Strip(ck.result[n]) # <<>>
    /\ Strip(ck.text) = <<>> => ck.result = <<>>

\* chunk_text has returned a list that holds sliding-window chunks.
C5_Witness ==
  /\ ck.pc = "done" /\ ck.fn = "chunk_text"
  /\ ck.windows >= 2 /\ Len(ck.result) >= 2

\* The non-whitespace characters of the chunks xs in order, without the first
\* ov[n] of them for the n-th chunk (those it shares with its predecessor).
RECURSIVE Reconstruct(_, _)
Reconstruct(xs, ov) ==
  IF xs = <<>> THEN <<>>
  ELSE LET x == NonSpace(Head(xs)) IN
       SubSeq(x, Head(ov) + 1, Len(x)) \o Reconstruct(Tail(xs), Tail(ov))

\* C6: chunk_text loses no content: the non-whitespace characters of the
\* input are those of the returned chunks in order, once the prefix a
\* sliding-window chunk shares with its predecessor is removed.
C6_NoContentLost ==
  (ck.pc = "done" /\ ck.fn = "chunk_text") =>
     NonSpace(ck.text) = Reconstruct(ck.result, ck.rovl)

\* chunk_text has returned for a text of several packed chunks of which one
\* was split by the sliding window.
C6_Witness ==
  /\ ck.pc = "done" /\ ck.fn = "chunk_text"
  /\ Len(ck.chunks) >= 2 /\ ck.windows >= 2
  /\ Len(NonSpace(ck.text)) >= 3

(***************************************************************************)
(* Properties of the ingestion pipeline (Spec)                             *)
(***************************************************************************)
RowsOf(i) == {r \in chunks : r.item_id = i}

\* C1: terminal statuses are absorbing: once an item's status is READY or
\* FAILED, no step of any task execution (a soft time limit at any point and
\* a second execution for the same item included) changes the status.
C1_TerminalAbsorbing ==
  [][\A i \in Items :
       items[i].status \in Terminal => items'[i].status = items[i].status]_vars

\* C2: a pass that has set PROCESSING leaves the item READY or FAILED, also
\* when the hard time limit ends the task: an item never stays PROCESSING
\* with no execution at work on it.
C2_NoStuckProcessing ==
  \A i \in Items :
    items[i].status = "PROCESSING" => \E p \in Passes : ItemOf(p) = i /\ Running(p)

\* C3: no error crosses the pass boundary: whatever fails after the pass has
\* started, the task function returns normally (it never ends by raising)
\* and the item is FAILED with a reason.
C3_NoErrorEscapes ==
  \A p \in Passes :
    /\ pass[p].pc # "raised"
    /\ At(p, "close") => /\ items[ItemOf(p)].status = "FAILED"
                         /\ items[ItemOf(p)].error_message # NULL

\* C7: chunk insert is insert-or-ignore on (item_id, chunk_index): whatever
\* passes write and however they interleave, the store holds at most one
\* chunk per (item_id, chunk_index), and a write to an existing key leaves
\* the stored chunk as it is (no committed chunk is changed or removed).
C7_InsertOrIgnore ==
  [][/\ chunks \subseteq chunks'
     /\ Cardinality({<<r.item_id, r.chunk_index>> : r \in chunks'}) = Cardinality(chunks')]_vars

\* A second execution for item i1 wrote chunk 0 of another content after the
\* first one had committed its chunk 0: the first one's chunk is still there.
C7_Witness ==
  /\ At(2, "set_ready") /\ ItemOf(2) = "i1"
  /\ pass[2].src = "B" /\ pass[2].n > 0
  /\ \E r \in chunks : /\ r.item_id = "i1" /\ r.chunk_index = 0
                       /\ r.text = ChunkTextOf("A", 0, 0)

\* The number of chunks pass p has written so far, and its content.
WrittenBy(p) == IF KindOf(p) \in {"PDF", "IMAGE"} THEN pass[p].chunk_idx ELSE pass[p].n
ContentOf(p) == IF KindOf(p) = "PDF" THEN "A" ELSE pass[p].src
Wrote(p) == pass[p].pc \in {"set_ready", "try_end"}

\* C8: within one pass chunk_index is assigned sequentially from 0 in chunker
\* output order (for PDF across the pages): after the pass has written its n
\* chunks, the committed chunks of the item have the indices 0..n-1 exactly
\* and the chunk at index i holds the i-th chunk text the pass produced.
C8_StoredIsPassOutput ==
  \A p \in Passes :
    Wrote(p) =>
      /\ {r.chunk_index : r \in RowsOf(ItemOf(p))} = 0 .. (WrittenBy(p) - 1)
      /\ \A r \in RowsOf(ItemOf(p)) :
           r.text[1] = ContentOf(p) /\ r.text[3] = r.chunk_index

\* C8, as the code has it: the pass writes its i-th chunk text under index i,
\* for i = 0..n-1; after it every index 0..n-1 holds a committed chunk, which
\* is the i-th chunk text of the pass unless another execution for the same
\* item had committed a chunk under that index before (that chunk is kept).
C8_SequentialUnlessTaken ==
  \A p \in Passes :
    Wrote(p) =>
      /\ \A idx \in 0 .. (WrittenBy(p) - 1) :
           \E r \in RowsOf(ItemOf(p)) :
             /\ r.chunk_index = idx
             /\ r.id[1] = p \/ \E o \in Passes \ {p} : r.id[1] = o /\ ItemOf(o) = ItemOf(p)
      /\ \A r \in RowsOf(ItemOf(p)) :
           r.id[1] = p => /\ r.chunk_index < WrittenBy(p)
                          /\ r.text[1] = ContentOf(p)
                          /\ r.text[3] = r.chunk_index
      /\ (\A r \in RowsOf(ItemOf(p)) : r.id[1] = p) =>
           {r.chunk_index : r \in RowsOf(ItemOf(p))} = 0 .. (WrittenBy(p) - 1)

\* A PDF pass has written chunks of two pages under the indices 0 and 1.
C8_Witness ==
  /\ At(1, "set_ready") /\ KindOf(1) = "PDF" /\ pass[1].chunk_idx = 2
  /\ \E r, q \in RowsOf("i1") :
       /\ r.chunk_index = 0 /\ r.pointer_start = PageStr(1)
       /\ q.chunk_index = 1 /\ q.pointer_start = PageStr(2)

\* A WEB or AUDIO pass whose chunker returned more than 50 chunks, a PDF or
\* MARKDOWN pass whose chunker returned more than 80 in all.
OverCap(p) == pass[p].emitted > CapOf(KindOf(p))

\* C9: per-item chunk cap: whatever the chunker produces, a WEB or AUDIO item
\* never has more than 50 stored chunks and a PDF or MARKDOWN item never more
\* than 80; the pass that produced more writes the first `cap` of them and
\* goes on to READY (the excess is dropped, it is not an error).
C9_ChunkCap ==
  /\ \A i \in Items :
       HasTimeLimits(items[i].kind) => Cardinality(RowsOf(i)) <= CapOf(items[i].kind)
  /\ \A p \in Passes :
       (ItemOf(p) \in Items /\ HasTimeLimits(KindOf(p)) /\ OverCap(p)) =>
          /\ pass[p].pc \in {"insert", "pages", "set_ready", "try_end"}
          /\ pass[p].exc = NULL
          /\ WrittenBy(p) <= CapOf(KindOf(p))
          /\ Wrote(p) => WrittenBy(p) = CapOf(KindOf(p))
          /\ (At(p, "try_end") /\ \A o \in Passes \ {p} : ItemOf(o) # ItemOf(p)) =>
               items[ItemOf(p)].status = "READY"

\* A PDF pass whose two pages gave 79 chunks each has stored 80 chunks and
\* set the item READY.
C9_Witness ==
  /\ At(1, "try_end") /\ KindOf(1) = "PDF" /\ pass[1].emitted = 2 * (DocCap - 1)
  /\ Cardinality(RowsOf("i1")) = DocCap
  /\ items["i1"].status = "READY"

\* C10: when the soft time limit has been delivered to a WEB, AUDIO or
\* DOCUMENT pass, at whatever point, no further step of the task body is
\* executed: the pass is in its failure handler or beyond it, and once the
\* handler has run the item is FAILED with the timeout reason.
C10_SoftLimitAborts ==
  \A p \in Passes :
    pass[p].soft =>
      /\ pass[p].pc \in {"handler", "close"}
      /\ At(p, "handler") => pass[p].exc = TimeoutReason(KindOf(p))

\* The calls guarded by a try of their own that catches SoftTimeLimitExceeded:
\* the extractor call of ingest_web, the chunker call of ingest_web and of
\* ingest_audio.
Guarded(k, pc) ==
  \/ k = "WEB" /\ pc \in {"extract", "extract_join"}
  \/ k \in {"WEB", "AUDIO"} /\ pc \in {"chunk", "chunk_hung"}

\* C10, as the code has it: a soft time limit delivered during a guarded call
\* (WEB extraction, WEB or AUDIO chunking) is absorbed, and the pass goes on
\* with the empty text or the fallback chunker; delivered at any other point
\* of the task body it ends the body: the handler is entered with the
\* timeout reason, writes no chunk, and its status update marks the item
\* FAILED with that reason.
C10_SoftLimitAbortsUnguarded ==
  [][\A p \in Passes :
       /\ (~ pass[p].soft /\ pass'[p].soft) =>
            IF Guarded(KindOf(p), pass[p].pc)
              THEN pass'[p].pc \in {"update_item", "insert"}
              ELSE /\ pass'[p].pc = "handler"
                   /\ pass'[p].exc = TimeoutReason(KindOf(p))
       /\ (/\ At(p, "handler") /\ pass[p].soft
           /\ pass[p].exc = TimeoutReason(KindOf(p))
           /\ pass'[p] # pass[p]) =>
            /\ chunks' = chunks
            /\ pass'[p].pc \in {"close", "raised", "killed"}
            /\ pass'[p].pc = "close" =>
                 /\ items'[ItemOf(p)].status = "FAILED"
                 /\ items'[ItemOf(p)].error_message = TimeoutReason(KindOf(p))]_vars

\* The soft limit ended the body of an AUDIO pass after it had committed a
\* chunk: the handler has marked the item FAILED with the timeout reason.
C10_Witness ==
  /\ At(1, "close") /\ pass[1].soft /\ KindOf(1) = "AUDIO"
  /\ items["i1"].status = "FAILED"
  /\ items["i1"].error_message = "audio_ingest_timeout"
  /\ RowsOf("i1") # {}
  /\ At(2, "idle")

\* The wait bound of _run_with_timeout or _embed_or_none has expired and the
\* pass is waiting for the stalled call to come to an end.
Blocked(p) ==
  \/ pass[p].pc \in {"extract_join", "embed_join"}
  \/ At(p, "chunk_hung") /\ KindOf(p) = "AUDIO"

\* C11: a bounded wait bounds the caller: when the call run by
\* _run_with_timeout or _embed_or_none stalls, the pass resumes as soon as
\* the wait bound expires; it is never left waiting for the stalled call.
C11_BoundedWaitResumes == \A p \in Passes : ~ Blocked(p)

Alone(p) == \A o \in Passes \ {p} : ItemOf(o) # ItemOf(p)
HasKey(meta, key) == \E kv \in meta : kv[1] = key

\* A WEB pass whose extractor call failed, after the failure.
WebDegraded(p) ==
  /\ ItemOf(p) \in Items /\ KindOf(p) = "WEB" /\ pass[p].src = NULL
  /\ pass[p].pc \in {"update_item", "merge_meta", "chunk", "insert", "set_ready", "try_end"}

WebDegradedOk(p) ==
  WebDegraded(p) =>
    /\ pass[p].pc \in {"update_item", "merge_meta"} => HasKey(pass[p].meta, "extract_error")
    /\ pass[p].pc \notin {"update_item", "merge_meta"} =>
         HasKey(items[ItemOf(p)].metadata, "extract_error")
    /\ pass[p].n = 0
    /\ \A r \in chunks : r.id[1] # p
    /\ (At(p, "try_end") /\ Alone(p)) => items[ItemOf(p)].status = "READY"

ExtractorErrors == {"extract_error", "transcribe_error"}

\* C12: a failure of the WEB extractor does not fail the pass: the pass goes
\* on with the empty text, writes no chunk, records the error in the item's
\* metadata and sets READY.  A failure of the PDF/Markdown extractor or of
\* the transcription call takes the pass to its failure handler, whose
\* status update marks the item FAILED with the error as reason.
C12_ExtractorFailure ==
  [][\A p \in Passes :
       /\ WebDegradedOk(p)'
       /\ (pass[p].pc \in {"extract", "transcribe"} /\ KindOf(p) # "WEB"
             /\ pass'[p].pc \notin {pass[p].pc, "killed"}) =>
            \/ pass'[p].pc = "update_item" /\ pass'[p].src # NULL
            \/ pass'[p].pc = "handler"
       /\ (At(p, "handler") /\ pass[p].exc \in ExtractorErrors /\ pass'[p].pc = "close") =>
            /\ items'[ItemOf(p)].status = "FAILED"
            /\ items'[ItemOf(p)].error_message = pass[p].exc]_vars

\* The extractor of a WEB pass failed; the pass has set the item READY with
\* the error in its metadata and no chunk.
C12_Witness ==
  /\ At(1, "try_end") /\ WebDegraded(1) /\ At(2, "idle")
  /\ items["i1"].status = "READY"
  /\ HasKey(items["i1"].metadata, "extract_error")
  /\ RowsOf("i1") = {}

\* A pass at work on an input file larger than 25 MB.
Oversize(p) == ItemOf(p) \in Items /\ items[ItemOf(p)].file = "too_large"

SizeReasons == {"audio_file_too_large_max_25mb", "document_file_too_large_max_25mb"}

\* Reasons of faults that do not depend on the input of the pass.
FaultReasons == {"storage_error", "str(SoftTimeLimitExceeded)", "audio_ingest_timeout",
                 "document_ingest_timeout"}

BeyondGuard ==
  {"transcribe", "extract", "extract_join", "update_item", "merge_meta", "chunk",
   "chunk_hung", "pages", "insert", "embed_join", "set_ready", "try_end"}

\* C13: the size guard precedes processing: a pass whose input file exceeds
\* 25 MB makes no transcription call, no extractor call and no chunk write,
\* and the reason it fails with is the size-limit reason.
C13_SizeGuardFirst ==
  \A p \in Passes :
    Oversize(p) =>
      /\ pass[p].pc \notin BeyondGuard
      /\ \A r \in chunks : r.id[1] # p
      /\ At(p, "handler") => pass[p].exc \in SizeReasons \cup FaultReasons

\* C13, as the code has it: ingest_audio checks the provider key before the
\* size of the file, so an AUDIO pass without a key fails with the key reason
\* whatever the size of its file.
C13_SizeGuardAfterKey ==
  \A p \in Passes :
    Oversize(p) =>
      /\ pass[p].pc \notin BeyondGuard
      /\ \A r \in chunks : r.id[1] # p
      /\ At(p, "handler") =>
           \/ pass[p].exc \in SizeReasons \cup FaultReasons
           \/ KindOf(p) = "AUDIO" /\ apiKey = "unset"
                /\ pass[p].exc = "OPENAI_API_KEY is not set"
      /\ (At(p, "handler") /\ pass[p].exc \in SizeReasons) =>
           pass[p].exc = (IF KindOf(p) = "AUDIO" THEN "audio_file_too_large_max_25mb"
                          ELSE "document_file_too_large_max_25mb")

\* The size guard of a DOCUMENT pass has refused a file over 25 MB.
C13_Witness ==
  /\ Oversize(1) /\ KindOf(1) = "PDF" /\ At(1, "handler")
  /\ pass[1].exc = "document_file_too_large_max_25mb"
  /\ chunks = {}

\* An AUDIO pass that holds a transcript (from the transcription to the
\* chunker call).
HoldsTranscript(p) ==
  /\ ItemOf(p) \in Items /\ KindOf(p) = "AUDIO"
  /\ pass[p].pc \in {"update_item", "merge_meta", "chunk", "chunk_hung"}

TranscriptOk(p) ==
  /\ HoldsTranscript(p) =>
       LET t == pass[p].tr
           flag == <<"transcript_truncated", ToString(t[3] > TranscriptCap)>>
       IN /\ t[1] = 0 /\ t[2] >= 1 /\ t[2] <= TranscriptCap
          /\ t[2] = (IF t[3] > TranscriptCap THEN TranscriptCap ELSE t[3])
          /\ pass[p].pc \in {"update_item", "merge_meta"} => flag \in pass[p].meta
          /\ (pass[p].pc \in {"chunk", "chunk_hung"} /\ Alone(p)) =>
               flag \in items[ItemOf(p)].metadata
  /\ (At(p, "handler") /\ pass[p].exc = "Empty transcript") =>
       \A r \in chunks : r.id[1] # p

\* C14: an AUDIO pass whose transcript is empty after trimming writes no
\* chunk and its handler marks the item FAILED; a transcript of more than
\* 60000 characters is cut to its first 60000 before it is chunked, the cut
\* is recorded in the metadata, and the pass goes on.
C14_Transcript ==
  [][\A p \in Passes :
       /\ TranscriptOk(p)'
       /\ (At(p, "transcribe") /\ pass'[p].pc = "update_item") => pass'[p].tr[3] >= 1
       /\ (At(p, "handler") /\ pass[p].exc = "Empty transcript" /\ pass'[p].pc = "close") =>
            /\ items'[ItemOf(p)].status = "FAILED"
            /\ items'[ItemOf(p)].error_message = "Empty transcript"]_vars

\* An AUDIO pass has cut a transcript of 60001 characters to 60000, recorded
\* the cut and reached the chunker call.
C14_Witness ==
  /\ At(1, "chunk") /\ HoldsTranscript(1) /\ At(2, "idle")
  /\ pass[1].tr = <<0, TranscriptCap, TranscriptCap + 1>>
  /\ <<"transcript_truncated", "TRUE">> \in items["i1"].metadata

\* C15: only the IMAGE pass attempts embeddings: every stored chunk of a WEB,
\* AUDIO, MARKDOWN or PDF item has a null embedding, and no pass for such an
\* item calls the embedding gateway.
C15_OnlyImageEmbeds ==
  /\ \A r \in chunks : ~ Embeds(items[r.item_id].kind) => r.embedding = NULL
  /\ \A p \in Passes :
       (ItemOf(p) \in Items /\ ~ Embeds(KindOf(p))) => pass[p].embed = NULL

\* With the provider key configured, an AUDIO pass has stored its chunks, all
\* without embedding, and set the item READY.
C15_Witness ==
  /\ apiKey = "set" /\ At(1, "try_end") /\ KindOf(1) = "AUDIO"
  /\ items["i1"].status = "READY"
  /\ Cardinality(RowsOf("i1")) = AudioCap
  /\ \A r \in RowsOf("i1") : r.embedding = NULL

\* C16: the list _embed_or_none returns has one entry for each text, whatever
\* the provider does, so that _insert_chunks goes through one row for every
\* chunk text of the pass.
C16_OneChunkPerText ==
  \A p \in Passes :
    (ItemOf(p) \in Items /\ Embeds(KindOf(p)) /\ Wrote(p)) =>
       pass[p].chunk_idx = pass[p].n

\* C17: embedding unavailability is not fatal: when no key is configured or
\* the provider call raises, the insert step of the IMAGE pass does not raise,
\* stores every chunk text of the pass with a null embedding, and the step
\* after it sets the item READY.
C17_EmbeddingUnavailable ==
  [][\A p \in Passes :
       /\ (At(p, "insert") /\ pass'[p].embed \in {"no_key", "raised"}) =>
            /\ pass'[p].pc = "set_ready"
            /\ pass'[p].chunk_idx = pass[p].n
            /\ \A idx \in 0 .. (pass[p].n - 1) :
                 \E r \in chunks' : r.item_id = ItemOf(p) /\ r.chunk_index = idx
            /\ \A r \in chunks' \ chunks : r.id[1] = p /\ r.embedding = NULL
       /\ (At(p, "set_ready") /\ pass[p].embed \in {"no_key", "raised"}
             /\ pass'[p].pc = "try_end") =>
            items'[ItemOf(p)].status = "READY"]_vars

\* The provider call of an IMAGE pass raised; the pass has stored its two
\* chunks without embedding and set the item READY.
C17_Witness ==
  /\ At(1, "try_end") /\ KindOf(1) = "IMAGE" /\ pass[1].embed = "raised"
  /\ pass[1].n = 2 /\ items["i1"].status = "READY"
  /\ Cardinality({r \in RowsOf("i1") : r.embedding = NULL}) = 2

\* The step in which pass p fails: an exception reaches its handler, the
\* handler writes FAILED, or the pass ends without its handler.
Fails(p) ==
  /\ pass'[p].pc # pass[p].pc
  /\ pass'[p].pc \in {"handler", "close", "raised", "killed"}

\* C18: partial success is kept: the steps in which a pass fails (by an error
\* or by a time limit), the write of FAILED among them, delete and modify no
\* committed chunk.
C18_PartialSuccessKept ==
  [][(\E p \in Passes : Fails(p)) => chunks' = chunks]_vars

\* A PDF pass committed the chunk of page 1, failed afterwards, and its
\* handler has marked the item FAILED: the chunk is still stored.
C18_Witness ==
  /\ At(1, "close") /\ KindOf(1) = "PDF" /\ items["i1"].status = "FAILED"
  /\ \E r \in RowsOf("i1") : r.id[1] = 1 /\ r.pointer_start = PageStr(1)

\* C19: PDF chunks are produced per page: every stored chunk of a PDF item
\* has pointer_type PDF_PAGE and pointer_start = pointer_end = the 1-based
\* number of the page its text came from; a page without text contributes no
\* chunk and does not shift the numbers of the pages after it.
C19_PdfPagePointers ==
  \A i \in Items :
    items[i].kind = "PDF" =>
      \A r \in RowsOf(i) :
        LET page == r.text[2]
        IN /\ r.pointer_type = "PDF_PAGE"
           /\ r.pointer_start = ToString(page) /\ r.pointer_end = ToString(page)
           /\ page \in 1 .. Len(items[i].doc)
           /\ items[i].doc[page] > 0

\* The first page of a PDF is blank: the chunk of the second page is stored
\* under index 0 with the page number 2.
C19_Witness ==
  /\ items["i1"].kind = "PDF" /\ Len(items["i1"].doc) = 2 /\ items["i1"].doc[1] = 0
  /\ \E r \in RowsOf("i1") :
       r.chunk_index = 0 /\ r.text[2] = 2 /\ r.pointer_start = "2" /\ r.pointer_end = "2"

(***************************************************************************)
(* hybrid_retrieve (services/retrieval.py).  Scores are integers: a        *)
(* normalised value is counted in tenths (One is 1.0) and a fused score in *)
(* hundredths, so that 0.6 * sem + 0.4 * kw is SemWeight * sem +           *)
(* KwWeight * kw.  A similarity or rank is counted in units of 0.5e-12, so *)
(* that the threshold 1e-12 of _norm is Eps.                               *)
(***************************************************************************)
One == 10           \* 1.0, in tenths
Eps == 2            \* 1e-12, in units of 0.5e-12
SemWeight == 6      \* 0.6
KwWeight == 4       \* 0.4
PerItemCap == 3     \* per_item[item_id] > 3
LimitFactor == 4    \* "k": top_k * 4

\* What a chunk is to the query: whether it has an embedding and its cosine
\* similarity, whether its tsv matches the query and its ts_rank_cd.
Signals ==
  {[emb |-> TRUE,  sim |-> Eps, match |-> FALSE, rank |-> 0],
   [emb |-> FALSE, sim |-> 0, match |-> TRUE,  rank |-> Eps],
   [emb |-> TRUE,  sim |-> 2 * Eps, match |-> TRUE,  rank |-> 2 * Eps]}

\* Where the times of the chunks of an item lie with respect to the window of
\* the call ("in", "out", or NULL for a time that is not set): no chunk has a
\* time of its own and the item's source_time is in the window ("item_in") or
\* outside ("item_out"), or the chunks at the even indices have a
\* chunk_time_start outside the window and the others one inside ("mixed").
TimePatterns == {"item_in", "item_out", "mixed"}

ChunkTimeStart(pat, idx) ==
  IF pat = "mixed" THEN (IF idx % 2 = 0 THEN "out" ELSE "in") ELSE NULL

SourceTime(pat) == IF pat = "item_out" THEN "out" ELSE "in"

\* The tables tried: n chunks of item i under the indices 0..n-1, each with
\* one of the signals sigs.
StoresOf(i, n, pat, sigs) ==
  {{[chunk_id |-> <<i, idx>>, item_id |-> i, chunk_index |-> idx, sig |-> f[idx],
     chunk_time_start |-> ChunkTimeStart(pat, idx), source_time |-> SourceTime(pat)] :
       idx \in 0 .. (n - 1)} : f \in [0 .. (n - 1) -> sigs]}

\* Item i1 has up to MaxChunks chunks of any signal; item i2 has no chunk or
\* one that has an embedding and does not match the query.
Stores(pat) ==
  {a \cup b : a \in UNION {StoresOf("i1", n, pat, Signals) : n \in 0 .. MaxChunks},
              b \in UNION {StoresOf("i2", n, "item_in", {s \in Signals : ~ s.match}) :
                             n \in 0 .. 1}}

\* {time_clause}, when time_start and time_end are given: the chunk's own
\* start time is in the window or, when it has none, the item's source_time is
TimeClause(c, window) ==
  window =>
    \/ c.chunk_time_start # NULL /\ c.chunk_time_start = "in"
    \/ c.chunk_time_start = NULL /\ c.source_time # NULL /\ c.source_time = "in"

\* A row of a result set: the columns the function reads, val being the
\* similarity or the rank column.
ResultRow(c, val) == [chunk_id |-> c.chunk_id, item_id |-> c.item_id, val |-> val]

\* The queries without {item_clause}
ItemClauseAny(c, item_id) == TRUE

\* {item_clause}: AND c.item_id = :item_id when an item_id is given
ItemClause(c, item_id) == item_id = NULL \/ c.item_id = item_id

\* ORDER BY val DESC: every order of the rows in which val does not increase
\* (rows of equal val come in any order).
RECURSIVE OrderDesc(_)
OrderDesc(S) ==
  IF S = {} THEN {<<>>}
  ELSE UNION {{<<r>> \o t : t \in OrderDesc(S \ {r})} :
                r \in {x \in S : \A y \in S : y.val <= x.val}}

\* ORDER BY c.chunk_index ASC (within one item the indices are distinct)
RECURSIVE ByIndexAsc(_)
ByIndexAsc(S) ==
  IF S = {} THEN <<>>
  ELSE LET c == CHOOSE x \in S : \A y \in S : x.chunk_index <= y.chunk_index
       IN <<c>> \o ByIndexAsc(S \ {c})

\* LIMIT :k
Limit(rows, k) == SubSeq(rows, 1, Min(Len(rows), k))

SeqMin(vals) == CHOOSE v \in {vals[i] : i \in DOMAIN vals} : \A i \in DOMAIN vals : v <= vals[i]
SeqMax(vals) == CHOOSE v \in {vals[i] : i \in DOMAIN vals} : \A i \in DOMAIN vals : v >= vals[i]

\* Norm with the values of a narrow range mapped to 0.0
NormZero(vals) ==
  IF vals = <<>> THEN <<>>
  ELSE LET mn == SeqMin(vals)
           mx == SeqMax(vals)
       IN IF mx - mn < Eps THEN [i \in DOMAIN vals |-> 0]
          ELSE [i \in DOMAIN vals |-> ((vals[i] - mn) * One) \div (mx - mn)]

\* _norm: min-max scaling; all 1.0 when mx - mn < 1e-12
Norm(vals) ==
  IF vals = <<>> THEN <<>>
  ELSE LET mn == SeqMin(vals)
           mx == SeqMax(vals)
       IN IF mx - mn < Eps THEN [i \in DOMAIN vals |-> One]
          ELSE [i \in DOMAIN vals |-> ((vals[i] - mn) * One) \div (mx - mn)]

Vals(rows) == [i \in DOMAIN rows |-> rows[i].val]
IdsOf(rows) == {rows[i].chunk_id : i \in DOMAIN rows}

\* merged, in insertion order: the vector rows, then the keyword rows that
\* are not among them.
MergedRows(vec_rows, kw_rows) ==
  vec_rows \o SelectSeq(kw_rows, LAMBDA r : r.chunk_id \notin IdsOf(vec_rows))

\* merged[cid]["sem"] / ["kw"]: the normalised value of the row in the set,
\* 0.0 when it is not in it
SignalOf(rows, cid) ==
  IF cid \in IdsOf(rows)
    THEN Norm(Vals(rows))[CHOOSE i \in DOMAIN rows : rows[i].chunk_id = cid]
    ELSE 0

\* Score with the two weights exchanged
ScoreSwapped(vec_rows, kw_rows, cid) ==
  KwWeight * SignalOf(vec_rows, cid) + SemWeight * SignalOf(kw_rows, cid)

\* score = 0.6 * obj["sem"] + 0.4 * obj["kw"]
Score(vec_rows, kw_rows, cid) ==
  SemWeight * SignalOf(vec_rows, cid) + KwWeight * SignalOf(kw_rows, cid)

\* SortByScore with the entries of equal score in reverse order
RECURSIVE SortByScoreReversed(_)
SortByScoreReversed(xs) ==
  IF xs = <<>> THEN <<>>
  ELSE LET top == CHOOSE i \in DOMAIN xs :
                    /\ \A j \in DOMAIN xs : xs[j].score <= xs[i].score
                    /\ \A j \in (i + 1) .. Len(xs) : xs[j].score < xs[i].score
       IN <<xs[top]>> \o
          SortByScoreReversed(SubSeq(xs, 1, top - 1) \o SubSeq(xs, top + 1, Len(xs)))

\* scored.sort(key=lambda x: x[0], reverse=True): a stable sort, entries of
\* equal score keep their order.
RECURSIVE SortByScore(_)
SortByScore(xs) ==
  IF xs = <<>> THEN <<>>
  ELSE LET top == CHOOSE i \in DOMAIN xs :
                    /\ \A j \in DOMAIN xs : xs[j].score <= xs[i].score
                    /\ \A j \in 1 .. (i - 1) : xs[j].score < xs[i].score
       IN <<xs[top]>> \o SortByScore(SubSeq(xs, 1, top - 1) \o SubSeq(xs, top + 1, Len(xs)))

\* Walk without the per-item cap
RECURSIVE WalkNoCap(_, _, _, _)
WalkNoCap(scored, per_item, evidence, top_k) ==
  IF scored = <<>> THEN evidence
  ELSE IF Len(evidence) + 1 >= top_k
         THEN Append(evidence, Head(scored))
         ELSE WalkNoCap(Tail(scored), per_item, Append(evidence, Head(scored)), top_k)

\* Walk that stops one entry late (len(evidence) > top_k)
RECURSIVE WalkLate(_, _, _, _)
WalkLate(scored, per_item, evidence, top_k) ==
  IF scored = <<>> THEN evidence
  ELSE LET e == Head(scored)
           cnt == [per_item EXCEPT ![e.item_id] = @ + 1]
       IN IF cnt[e.item_id] > PerItemCap
            THEN WalkLate(Tail(scored), cnt, evidence, top_k)
            ELSE IF Len(evidence) + 1 > top_k
                   THEN Append(evidence, e)
                   ELSE WalkLate(Tail(scored), cnt, Append(evidence, e), top_k)

\* The loop over scored: per-item count, cap, top_k.
RECURSIVE Walk(_, _, _, _)
Walk(scored, per_item, evidence, top_k) ==
  IF scored = <<>> THEN evidence
  ELSE LET e == Head(scored)
           cnt == [per_item EXCEPT ![e.item_id] = @ + 1]
       IN IF cnt[e.item_id] > PerItemCap
            THEN Walk(Tail(scored), cnt, evidence, top_k)
            ELSE IF Len(evidence) + 1 >= top_k
                   THEN Append(evidence, e)
                   ELSE Walk(Tail(scored), cnt, Append(evidence, e), top_k)

\* The call: a table, an item_id filter (or none) and top_k.
RetrieveCall ==
  /\ rq.pc = "off"
  /\ \E w \in BOOLEAN, i \in {NULL, "i1"}, k \in {0, 1, MaxTopK} :
       \E pat \in (IF w THEN TimePatterns \ {"item_in"} ELSE {"item_in"}) :
         \E st \in Stores(pat) :
           rq' = [IdleRetrieve EXCEPT !.pc = "embed", !.store = st, !.item_id = i,
                                     !.top_k = k, !.window = w]
  /\ UNCHANGED <<items, chunks, pass, apiKey, ck, nv>>

\* q_vec = embed_texts([query_text])[0], None when it raises
EmbedQuery ==
  /\ rq.pc = "embed"
  /\ \E v \in {"vec", NULL} : rq' = [rq EXCEPT !.pc = "vector", !.q_vec = v]
  /\ UNCHANGED <<items, chunks, pass, apiKey, ck, nv>>

\* VectorQuery run whether or not the query was embedded
VectorQueryAlways ==
  /\ rq.pc = "vector"
  /\ LET found == {ResultRow(c, c.sig.sim) :
                     c \in {x \in rq.store : /\ x.sig.emb /\ ItemClause(x, rq.item_id)
                                             /\ TimeClause(x, rq.window)}}
     IN \E rows \in OrderDesc(found) :
          rq' = [rq EXCEPT !.pc = "keyword",
                           !.vec_rows = Limit(rows, rq.top_k * LimitFactor)]
  /\ UNCHANGED <<items, chunks, pass, apiKey, ck, nv>>

\* The vector candidates, when the query was embedded.
VectorQuery ==
  /\ rq.pc = "vector"
  /\ LET found == {ResultRow(c, c.sig.sim) :
                     c \in {x \in rq.store : /\ x.sig.emb /\ ItemClause(x, rq.item_id)
                                             /\ TimeClause(x, rq.window)}}
     IN IF rq.q_vec = NULL
          THEN rq' = [rq EXCEPT !.pc = "keyword"]
          ELSE \E rows \in OrderDesc(found) :
                 rq' = [rq EXCEPT !.pc = "keyword",
                                  !.vec_rows = Limit(rows, rq.top_k * LimitFactor)]
  /\ UNCHANGED <<items, chunks, pass, apiKey, ck, nv>>

\* The keyword candidates.
KeywordQuery ==
  /\ rq.pc = "keyword"
  /\ LET found == {ResultRow(c, c.sig.rank) :
                     c \in {x \in rq.store : /\ x.sig.match /\ ItemClause(x, rq.item_id)
                                             /\ TimeClause(x, rq.window)}}
     IN \E rows \in OrderDesc(found) :
          rq' = [rq EXCEPT !.pc = "fallback",
                           !.kw_rows = Limit(rows, rq.top_k * LimitFactor)]
  /\ UNCHANGED <<items, chunks, pass, apiKey, ck, nv>>

\* fallback_sql: the chunks of the item by chunk_index, 0.0 as sim, 0.0 as rank
FallbackRows(store, item_id, k) ==
  LET found == ByIndexAsc({c \in store : c.item_id = item_id})
  IN Limit([i \in DOMAIN found |-> ResultRow(found[i], 0)], k)

\* if not vec_rows and not kw_rows and item_id: kw_rows = the fallback rows
FallbackQuery ==
  /\ rq.pc = "fallback"
  /\ IF rq.vec_rows = <<>> /\ rq.kw_rows = <<>> /\ rq.item_id # NULL
       THEN rq' = [rq EXCEPT !.pc = "fuse", !.fallback = TRUE,
                     !.kw_rows = FallbackRows(rq.store, rq.item_id, rq.top_k * LimitFactor)]
       ELSE rq' = [rq EXCEPT !.pc = "fuse"]
  /\ UNCHANGED <<items, chunks, pass, apiKey, ck, nv>>

\* Normalisation, merge, scoring and sort.
Fuse ==
  /\ rq.pc = "fuse"
  /\ LET merged == MergedRows(rq.vec_rows, rq.kw_rows)
         scored == [i \in DOMAIN merged |->
                      [chunk_id |-> merged[i].chunk_id, item_id |-> merged[i].item_id,
                       score |-> Score(rq.vec_rows, rq.kw_rows, merged[i].chunk_id)]]
     IN rq' = [rq EXCEPT !.pc = "walk", !.scored = SortByScore(scored)]
  /\ UNCHANGED <<items, chunks, pass, apiKey, ck, nv>>

\* The diversity cap and top_k; the function returns evidence.
Collect ==
  /\ rq.pc = "walk"
  /\ rq' = [rq EXCEPT !.pc = "done",
              !.evidence = Walk(rq.scored, [i \in Items |-> 0], <<>>, rq.top_k)]
  /\ UNCHANGED <<items, chunks, pass, apiKey, ck, nv>>

InitRetrieve ==
  /\ items = [i \in Items |-> NoItem]
  /\ chunks = {}
  /\ pass = [p \in Passes |-> IdlePass]
  /\ apiKey = "unread"
  /\ ck = IdleChunker
  /\ rq = IdleRetrieve
  /\ nv = IdleNorm

NextRetrieve ==
  \/ RetrieveCall
  \/ EmbedQuery
  \/ VectorQuery
  \/ KeywordQuery
  \/ FallbackQuery
  \/ Fuse
  \/ Collect

RetrieveSpec == InitRetrieve /\ [][NextRetrieve]_vars

\* The call has returned from the fallback.
FellBack == rq.pc = "done" /\ rq.fallback

\* C20: fallback retrieval: when both candidate sets are empty and an item_id
\* is given, hybrid_retrieve returns chunks of that item in ascending
\* chunk_index order, each with score 0.
C20_FallbackScoreZero ==
  FellBack =>
    /\ \A n \in DOMAIN rq.evidence :
         /\ rq.evidence[n].item_id = rq.item_id
         /\ rq.evidence[n].score = 0
    /\ \A n, m \in DOMAIN rq.evidence :
         n < m => rq.evidence[n].chunk_id[2] < rq.evidence[m].chunk_id[2]

\* The chunk of the table an evidence entry was made of.
ChunkOf(e) == CHOOSE c \in rq.store : c.chunk_id = e.chunk_id

\* C21: the time window is a hard filter: when time_start and time_end are
\* both given, every evidence entry returned, the item fallback included,
\* comes from a chunk whose own time is in the window or, when it has none,
\* whose item's source time is.
C21_TimeWindowHard ==
  (rq.pc = "done" /\ rq.window) =>
     \A n \in DOMAIN rq.evidence : TimeClause(ChunkOf(rq.evidence[n]), TRUE)

\* The min-max scaled value (in tenths) of chunk cid in a candidate set: 1.0
\* when the values of the set do not differ, 0 when the chunk is not in it.
MinMaxIn(rows, cid) ==
  LET vals == {rows[i].val : i \in DOMAIN rows}
      mine == {rows[i].val : i \in {j \in DOMAIN rows : rows[j].chunk_id = cid}}
  IN IF mine = {} THEN 0
     ELSE LET v  == CHOOSE x \in mine : TRUE
              lo == CHOOSE x \in vals : \A y \in vals : x <= y
              hi == CHOOSE x \in vals : \A y \in vals : x >= y
          IN IF hi = lo THEN One ELSE ((v - lo) * One) \div (hi - lo)

OfItem(xs, i) == {n \in DOMAIN xs : xs[n].item_id = i}

\* The evidence entry made of scored[j], if there is one.
Returned(j) == \E n \in DOMAIN rq.evidence : rq.evidence[n].chunk_id = rq.scored[j].chunk_id

\* C23: diversity cap: the evidence list has at most 3 entries of one item,
\* and a candidate skipped because its item had reached the cap does not
\* count against top_k: a candidate is left out only when its item already
\* has 3 candidates before it or top_k entries are collected.
C23_DiversityCap ==
  rq.pc = "done" =>
    /\ \A i \in Items : Cardinality(OfItem(rq.evidence, i)) <= PerItemCap
    /\ \A j \in DOMAIN rq.scored :
         ~ Returned(j) =>
            \/ Cardinality({h \in OfItem(rq.scored, rq.scored[j].item_id) : h < j}) >= PerItemCap
            \/ Len(rq.evidence) = rq.top_k

\* The fourth candidate of item i1 was skipped and the candidate of i2 that
\* follows it is returned as the fourth entry.
C23_Witness ==
  /\ rq.pc = "done" /\ rq.top_k = MaxTopK /\ Len(rq.evidence) = PerItemCap + 1
  /\ \E j \in DOMAIN rq.scored :
       /\ ~ Returned(j) /\ rq.scored[j].item_id = "i1"
       /\ j < Len(rq.scored) /\ rq.scored[j + 1].item_id = "i2" /\ Returned(j + 1)

\* The number of merged candidates the diversity cap admits.
Admitted ==
  LET n1 == Cardinality(OfItem(rq.scored, "i1"))
      n2 == Cardinality(OfItem(rq.scored, "i2"))
  IN Min(n1, PerItemCap) + Min(n2, PerItemCap)

\* C24: hybrid_retrieve returns exactly min(top_k, candidates admitted by
\* the diversity cap) entries: it stops at top_k and returns fewer only when
\* the candidates are exhausted.
C24_EvidenceLength ==
  rq.pc = "done" => Len(rq.evidence) = Min(rq.top_k, Admitted)

\* Five candidates were merged, four are admitted by the cap, and top_k = 1
\* ended the walk after the first.
C24_Witness ==
  /\ rq.pc = "done" /\ rq.top_k = 1 /\ Len(rq.evidence) = 1
  /\ Len(rq.scored) = 5 /\ Admitted = 4

\* The place of a chunk in first-seen order: the vector candidates in fetch
\* order, then the keyword candidates that are not among them.
FirstSeen(cid) ==
  LET merged == MergedRows(rq.vec_rows, rq.kw_rows)
  IN CHOOSE n \in DOMAIN merged : merged[n].chunk_id = cid

\* C25: the evidence list is ordered by non-increasing fused score, and
\* candidates of equal score come in first-seen order.
C25_OrderAndTies ==
  rq.pc = "done" =>
    \A n, m \in DOMAIN rq.evidence :
      n < m =>
        /\ rq.evidence[n].score >= rq.evidence[m].score
        /\ rq.evidence[n].score = rq.evidence[m].score =>
             FirstSeen(rq.evidence[n].chunk_id) < FirstSeen(rq.evidence[m].chunk_id)

\* Two candidates of equal score are returned, the vector candidate before
\* the keyword-only one although its chunk_index is the higher one.
C25_Witness ==
  /\ rq.pc = "done"
  /\ \E n, m \in DOMAIN rq.evidence :
       /\ n < m /\ rq.evidence[n].score = rq.evidence[m].score
       /\ rq.evidence[n].chunk_id \in IdsOf(rq.vec_rows)
       /\ rq.evidence[m].chunk_id \notin IdsOf(rq.vec_rows)
       /\ rq.evidence[n].item_id = rq.evidence[m].item_id
       /\ rq.evidence[n].chunk_id[2] > rq.evidence[m].chunk_id[2]

\* C26: a query that cannot be embedded does not fail retrieval: no vector
\* query is made, the call returns, and every returned score is 0.4 times the
\* normalised lexical value of the candidate.
C26_LexicalOnly ==
  (rq.q_vec = NULL /\ rq.pc \in {"keyword", "fallback", "fuse", "walk", "done"}) =>
     /\ rq.vec_rows = <<>>
     /\ \A n \in DOMAIN rq.scored :
          rq.scored[n].score = KwWeight * MinMaxIn(rq.kw_rows, rq.scored[n].chunk_id)
     /\ rq.pc = "done" => \A n \in DOMAIN rq.evidence :
          \E j \in DOMAIN rq.scored : rq.evidence[n] = rq.scored[j]

\* The query could not be embedded, a chunk with an embedding matches it
\* lexically and is returned with score 0.4.
C26_Witness ==
  /\ rq.pc = "done" /\ rq.q_vec = NULL /\ ~ rq.fallback
  /\ \E n \in DOMAIN rq.evidence :
       /\ ChunkOf(rq.evidence[n]).sig.emb
       /\ rq.evidence[n].score = KwWeight * One

(***************************************************************************)
(* _norm on its own                                                        *)
(***************************************************************************)
\* The lists tried: up to MaxNormLen scores from 0 to MaxVal.
NormInputs == UNION {[1 .. n -> 0 .. MaxVal] : n \in 0 .. MaxNormLen}

InitNorm ==
  /\ items = [i \in Items |-> NoItem]
  /\ chunks = {}
  /\ pass = [p \in Passes |-> IdlePass]
  /\ apiKey = "unread"
  /\ ck = IdleChunker
  /\ rq = IdleRetrieve
  /\ nv \in {[pc |-> "call", vals |-> v, out |-> <<>>] : v \in NormInputs}

NormCall ==
  /\ nv.pc = "call"
  /\ nv' = [nv EXCEPT !.pc = "done", !.out = Norm(nv.vals)]
  /\ UNCHANGED <<items, chunks, pass, apiKey, ck, rq>>

NextNorm == NormCall

NormSpec == InitNorm /\ [][NextNorm]_vars

\* The range of the list given to _norm.
Range(vals) == SeqMax(vals) - SeqMin(vals)

\* vals[i] is mapped by min-max scaling: into [0, 1], the maximum to 1, the
\* minimum to 0, and the order is kept.
Scaled ==
  \A i \in DOMAIN nv.vals :
    /\ nv.out[i] >= 0 /\ nv.out[i] <= One
    /\ nv.vals[i] = SeqMax(nv.vals) => nv.out[i] = One
    /\ nv.vals[i] = SeqMin(nv.vals) => nv.out[i] = 0
    /\ \A j \in DOMAIN nv.vals : nv.vals[i] < nv.vals[j] => nv.out[i] < nv.out[j]

AllOne == \A i \in DOMAIN nv.out : nv.out[i] = One

\* C27, as stated: a list with at least two distinct scores is min-max
\* scaled (values in [0, 1], maximum to 1, minimum to 0, order kept); a list
\* whose scores are all equal (a single score included) is mapped to 1.0
\* throughout; the result has the length of the list.
C27_NormDistinct ==
  nv.pc = "done" =>
    /\ Len(nv.out) = Len(nv.vals)
    /\ (nv.vals # <<>> /\ Range(nv.vals) > 0) => Scaled
    /\ (nv.vals # <<>> /\ Range(nv.vals) = 0) => AllOne

\* C27, as the code has it: the list is min-max scaled when its maximum and
\* minimum differ by 1e-12 or more, and mapped to 1.0 throughout when they
\* differ by less (all equal and a single score included); the result has
\* the length of the list.
C27_NormThreshold ==
  nv.pc = "done" =>
    /\ Len(nv.out) = Len(nv.vals)
    /\ (nv.vals # <<>> /\ Range(nv.vals) >= Eps) => Scaled
    /\ (nv.vals # <<>> /\ Range(nv.vals) < Eps) => AllOne

\* Three scores with a range above the threshold were scaled, the middle one
\* strictly between 0 and 1.
C27_Witness ==
  /\ nv.pc = "done" /\ Len(nv.vals) = 3 /\ Range(nv.vals) >= Eps
  /\ \E i \in DOMAIN nv.out : nv.out[i] > 0 /\ nv.out[i] < One

(***************************************************************************)
(* Passes beside each other                                                *)
(***************************************************************************)
\* Pass p took a step.
Acts(p) == pass'[p] # pass[p]

\* C28: passes of distinct items are independent: a step of a pass for item
\* A changes only A's knowledge_items row and the chunks with item_id = A;
\* the row and the chunks of another item B change only by steps of B's own
\* pass.
C28_DistinctItemsIndependent ==
  [][\A i \in Items :
       (items[i].status # "ABSENT" /\ (items'[i] # items[i] \/ RowsOf(i)' # RowsOf(i))) =>
          \E p \in Passes : ItemOf(p) = i /\ Acts(p)]_vars

\* The passes of two items ran beside each other: item i1 is READY with its
\* chunks, item i2 was failed by its own pass.
C28_Witness ==
  /\ ItemOf(1) = "i1" /\ ItemOf(2) = "i2"
  /\ At(1, "try_end") /\ At(2, "close")
  /\ items["i1"].status = "READY" /\ items["i2"].status = "FAILED"
  /\ RowsOf("i1") # {} /\ \A r \in RowsOf("i1") : r.id[1] = 1

\* The chunks of item i are what pass q stores when it runs alone.
StoredAlone(i, q) ==
  /\ {r.chunk_index : r \in RowsOf(i)} = 0 .. (WrittenBy(q) - 1)
  /\ \A r \in RowsOf(i) : r.text[1] = ContentOf(q)

\* C29: overlap of two passes on the same item is safe: when both have
\* stored their chunks, the chunks of the item are those one of the two
\* would have stored alone, never a mixture.
C29_OverlapNoMixture ==
  \A p, o \in Passes :
    (p # o /\ ItemOf(p) \in Items /\ ItemOf(p) = ItemOf(o) /\ Wrote(p) /\ Wrote(o)) =>
       StoredAlone(ItemOf(p), p) \/ StoredAlone(ItemOf(p), o)

\* C30: error message tracks status: an item whose status is PROCESSING or
\* READY (or still PENDING) has no error_message; an error_message is there
\* only while the status is FAILED.
C30_ErrorTracksStatus ==
  \A i \in Items :
    /\ items[i].status \in {"PROCESSING", "READY"} => items[i].error_message = NULL
    /\ items[i].error_message # NULL => items[i].status = "FAILED"

\* A first pass failed item i1 (its handler has written FAILED), and a second
\* pass for it has entered PROCESSING: the message is cleared.
C30_Witness ==
  /\ At(1, "close") /\ ItemOf(1) = "i1" /\ ItemOf(2) = "i1"
  /\ pass[2].pc \notin {"idle", "set_processing", "handler", "close"} /\ Running(2)
  /\ items["i1"].status = "PROCESSING" /\ items["i1"].error_message = NULL

\* C32: whenever hybrid_retrieve is called with an item_id filter, every
\* candidate belongs to that item and the returned evidence list has at most
\* min(3, top_k) entries, on the ranked path and on the fallback path alike.
C32_ItemFilterBound ==
  (rq.pc = "done" /\ rq.item_id # NULL) =>
    /\ \A j \in DOMAIN rq.scored : rq.scored[j].item_id = rq.item_id
    /\ \A n \in DOMAIN rq.evidence : rq.evidence[n].item_id = rq.item_id
    /\ Len(rq.evidence) <= Min(PerItemCap, rq.top_k)

\* A filtered call with top_k above the cap found four candidates of the item
\* on the ranked path, while the table also holds a chunk of another item,
\* and returned three.
C32_Witness ==
  /\ rq.pc = "done" /\ rq.item_id = "i1" /\ ~ rq.fallback
  /\ rq.top_k = MaxTopK /\ MaxTopK > PerItemCap
  /\ \E c \in rq.store : c.item_id # rq.item_id
  /\ Len(rq.scored) = PerItemCap + 1 /\ Len(rq.evidence) = PerItemCap

(***************************************************************************)
(* Transactions of the ingestion passes (Spec)                             *)
(***************************************************************************)
\* The committed chunks that pass p has written.
Mine(p) == {r \in chunks : r.id[1] = p}

\* The indices of the item of pass p that hold a committed chunk.
Taken(p) == {r.chunk_index : r \in RowsOf(ItemOf(p))}

\* The indices of the page the PDF loop of pass p is at.
PageIndices(p) ==
  LET idx == pass[p].chunk_idx
      pages == items[ItemOf(p)].doc
  IN IF At(p, "pages") /\ pass[p].pg <= Len(pages)
       THEN idx .. (idx + PageTake(pages[pass[p].pg], idx) - 1)
       ELSE {}

\* In store, index idx of item id holds a chunk of text txt.
Committed(store, id, idx, txt) ==
  \E r \in store : r.item_id = id /\ r.chunk_index = idx /\ r.text = txt

\* C31: chunk commits are atomic per batch: a step that commits chunks of a
\* WEB, AUDIO, MARKDOWN or IMAGE pass is the one commit of the pass (none of
\* its chunks was committed before, and no step taken after an error or a
\* soft timeout commits any) and after it all chunks of the pass (after
\* capping) are committed; a step that commits chunks of a PDF pass commits
\* chunks of the page the loop is at only, keeps the pages before it, and
\* after it all chunks of that page (up to the cap) are committed.
C31_AtomicBatches ==
  [][\A p \in Passes :
       (ItemOf(p) \in Items /\ Mine(p)' # Mine(p)) =>
          IF KindOf(p) = "PDF"
            THEN /\ Mine(p) \subseteq Mine(p)'
                 /\ \A r \in Mine(p)' \ Mine(p) : r.chunk_index \in PageIndices(p)
                 /\ \A idx \in PageIndices(p) :
                      Committed(chunks', ItemOf(p), idx,
                                ChunkTextOf("A", pass[p].pg,
                                            pass[p].emitted + (idx - pass[p].chunk_idx)))
            ELSE /\ Mine(p) = {}
                 /\ pass[p].pc \in {"insert", "embed_join"}
                 /\ \A idx \in 0 .. (pass[p].n - 1) :
                      Committed(chunks', ItemOf(p), idx,
                                ChunkTextOf(pass[p].src, 0, idx))]_vars

\* The transaction by itself: a step that commits chunks of a pass commits
\* the rows of one whole batch (the statements the insert loop went through,
\* or those of one PDF page), less the keys another execution had taken: the
\* statements a failed batch left pending are never committed.
BatchAtomic ==
  [][\A p \in Passes :
       (ItemOf(p) \in Items /\ Mine(p)' # Mine(p)) =>
          /\ Mine(p) \subseteq Mine(p)'
          /\ pass[p].pc \in {"insert", "embed_join", "pages"}
          /\ pass'[p].pc \in {"set_ready", "pages"}
          /\ {r.chunk_index : r \in Mine(p)' \ Mine(p)} =
               (IF KindOf(p) = "PDF" THEN PageIndices(p)
                ELSE 0 .. (WrittenBy(p)' - 1)) \ Taken(p)]_vars

\* A batch of 50 statements was interrupted at its commit: all are pending
\* in the session when the exception reaches the handler.
BatchAtomic_Witness ==
  \E p \in Passes :
    /\ At(p, "handler") /\ Cardinality(pass[p].tx) = WebCap /\ Mine(p) = {}

====
